---- MODULE Spec2Model ----
(***************************************************************************)
(* Model of the order promising engine (src/src/aipe): the store           *)
(* (inventory, asns, replenishment_locks, orders, business_rules), the     *)
(* readers and the committer of inventory_mcp.py, and the three-node graph *)
(* of promising_agent.py.                                                  *)
(*                                                                         *)
(* Dates are day numbers; an eta_datetime string is the pair <<day, tod>>  *)
(* (tod = 0 when the string has no time part), whose lexicographic order   *)
(* is the order of the ISO strings and whose date part is the day.         *)
(* A nullable column is the empty sequence (NULL) or a one-element         *)
(* sequence.  An optional asn_id is "" when absent.                        *)
(***************************************************************************)
EXTENDS Integers, Sequences, FiniteSets, TLC

VARIABLES
    inventory,   \* table inventory: sku -> [on_hand_qty, safety_stock_qty]
    asns,        \* table asns, in the row order of the store
    locks,       \* table replenishment_locks: a set of rows, lock_id the key
    orders,      \* table orders: order_id -> [status, fulfillment_source]
    rules,       \* table business_rules, in the row order of the store
    ag,          \* per caller thread: the AgentState and the graph node to run next
    loc,         \* per caller thread: what the running node has read so far
    runs,        \* number of run_agent calls made so far
    commits,     \* history: per order_id, the number of committed execute_allocation calls
    direct_qty,  \* history: per asn_id, the quantity committed DIRECT_INBOUND against it
    trail,       \* history: per caller thread, the nodes run by its current evaluation
    resolved     \* the last call of get_rule_config made on its own, and what it returned

vars == <<inventory, asns, locks, orders, rules, ag, loc, runs, commits, direct_qty,
          trail, resolved>>

storeVars == <<inventory, locks, orders>>

----------------------------------------------------------------------------
(* Bounds and input sets *)

MaxRuns == 2
MaxQty == 2
MaxOnHand == 2
MaxAsnQty == 2

Today == 10
DefaultWindowDays == 7
DateMax == 3652059

SKUs == {"A", "B"}
OrderIds == {"o1", "o2", "o3"}
AsnIds == {"n1", "n2"}
Threads == {"t1", "t2"}
SeqThreads == {"t1"}

NULL == << >>
Some(x) == <<x>>

Strategies == {"FREE_STOCK", "SS_BORROW_WITH_REPLENISH", "SS_RISKY", "DIRECT_INBOUND", "NONE"}

Max(a, b) == IF a >= b THEN a ELSE b

----------------------------------------------------------------------------
(* inventory_mcp.py: readers *)

get_inventory_position(inv, sku) ==
    IF sku \in DOMAIN inv
    THEN [on_hand |-> inv[sku].on_hand_qty, safety_stock |-> inv[sku].safety_stock_qty]
    ELSE [on_hand |-> 0, safety_stock |-> 0]

RECURSIVE SumLocked(_)
SumLocked(rows) ==
    IF rows = {} THEN 0
    ELSE LET r == CHOOSE x \in rows : TRUE
         IN  r.qty_locked + SumLocked(rows \ {r})

\* SELECT SUM(qty_locked) ... WHERE asn_id = :asn_id, NULL read as 0
LockedQty(lks, asn_id) == SumLocked({l \in lks : l.asn_id = asn_id})

AvailableQty(qty, locked_qty) == Max(0, qty - locked_qty)

OpenRow(a, sku) == a.sku = sku /\ a.status # "CLOSED"

\* mutant: rows with nothing available are returned too
HasAvailability_mut(asn) == TRUE

HasAvailability(asn) == asn.available_qty > 0

\* mutant: only the first row of the query is fetched
get_inbound_asns_mut(asnRows, lks, sku) ==
    LET rows == SelectSeq(asnRows, LAMBDA a : OpenRow(a, sku))
        first == IF rows = << >> THEN << >> ELSE <<rows[1]>>
        withAvail == [i \in 1..Len(first) |->
                        [asn_id |-> first[i].asn_id,
                         qty |-> first[i].qty,
                         eta_datetime |-> first[i].eta_datetime,
                         available_qty |-> AvailableQty(first[i].qty, LockedQty(lks, first[i].asn_id))]]
    IN  SelectSeq(withAvail, HasAvailability)

get_inbound_asns(asnRows, lks, sku) ==
    LET rows == SelectSeq(asnRows, LAMBDA a : OpenRow(a, sku))
        withAvail == [i \in 1..Len(rows) |->
                        [asn_id |-> rows[i].asn_id,
                         qty |-> rows[i].qty,
                         eta_datetime |-> rows[i].eta_datetime,
                         available_qty |-> AvailableQty(rows[i].qty, LockedQty(lks, rows[i].asn_id))]]
    IN  SelectSeq(withAvail, HasAvailability)

----------------------------------------------------------------------------
(* inventory_mcp.py: _parse_value and get_rule_config *)

ValueStrings == {"true", "True", "false", "False", "5", "1", "0", "abc"}

Lower(s) == CASE s = "True" -> "true"
              [] s = "False" -> "false"
              [] OTHER -> s

IsIntString(s) == s \in {"5", "1", "0"}

IntOfString(s) == CASE s = "5" -> 5
                    [] s = "1" -> 1
                    [] OTHER -> 0

NoValue == [type |-> "none", b |-> FALSE, i |-> 0, s |-> ""]

parse_value(val) ==
    IF Lower(val) = "true" THEN [type |-> "bool", b |-> TRUE, i |-> 0, s |-> ""]
    ELSE IF Lower(val) = "false" THEN [type |-> "bool", b |-> FALSE, i |-> 0, s |-> ""]
    ELSE IF IsIntString(val) THEN [type |-> "int", b |-> FALSE, i |-> IntOfString(val), s |-> ""]
    ELSE [type |-> "str", b |-> FALSE, i |-> 0, s |-> val]

\* mutant: a rule that is absent counts as allowing
Truthy_mut(v) == CASE v.type = "bool" -> v.b
                   [] v.type = "int" -> v.i # 0
                   [] v.type = "str" -> v.s # ""
                   [] OTHER -> TRUE

\* Python truthiness of a resolved value
Truthy(v) == CASE v.type = "bool" -> v.b
               [] v.type = "int" -> v.i # 0
               [] v.type = "str" -> v.s # ""
               [] OTHER -> FALSE

\* int(window_days) succeeds for an int or a bool, raises ValueError for other text
IntConvertible(v) == v.type \in {"int", "bool"}

IntOf(v) == CASE v.type = "int" -> v.i
              [] v.type = "bool" -> (IF v.b THEN 1 ELSE 0)
              [] OTHER -> 0

\* mutant: the first query does not look at start_date
StartOk_mut(r, today) == TRUE

StartOk(r, today) == r.start_date = NULL \/ r.start_date[1] <= today
EndOk(r, today) == r.end_date = NULL \/ r.end_date[1] >= today
Dated(r) == r.start_date # NULL \/ r.end_date # NULL

\* the WHERE clause of the first query
DatedItemMatch(r, rule_name, sku, today) ==
    /\ r.rule_name = rule_name
    /\ r.scope = "ITEM"
    /\ r.sku = Some(sku)
    /\ StartOk(r, today)
    /\ EndOk(r, today)
    /\ Dated(r)

\* mutant: the second query leaves the GLOBAL rows out
CandidateMatch_mut(r, rule_name, sku) == r.rule_name = rule_name /\ r.sku = Some(sku)

\* the WHERE clause of the second query
CandidateMatch(r, rule_name, sku) ==
    r.rule_name = rule_name /\ (r.sku = Some(sku) \/ r.scope = "GLOBAL")

\* P1 of the loop over the candidates
P1Match(r, sku, today) ==
    /\ r.scope = "ITEM"
    /\ r.sku = Some(sku)
    /\ \/ r.start_date # NULL /\ r.end_date # NULL
          /\ r.start_date[1] <= today /\ today <= r.end_date[1]
       \/ r.start_date # NULL /\ r.end_date = NULL /\ r.start_date[1] <= today
       \/ r.start_date = NULL /\ r.end_date # NULL /\ today <= r.end_date[1]

P2Match(r, sku) ==
    r.scope = "ITEM" /\ r.sku = Some(sku) /\ r.start_date = NULL /\ r.end_date = NULL

P3Match(r) == r.scope = "GLOBAL"

\* no call of the resolver on its own has been made
NoCall == [sku |-> "", rule_name |-> "", value |-> NoValue]

get_rule_config(ruleRows, sku, rule_name) ==
    LET today == Today
        q1 == SelectSeq(ruleRows, LAMBDA r : DatedItemMatch(r, rule_name, sku, today))
        cand == SelectSeq(ruleRows, LAMBDA r : CandidateMatch(r, rule_name, sku))
        p1 == SelectSeq(cand, LAMBDA r : P1Match(r, sku, today))
        p2 == SelectSeq(cand, LAMBDA r : P2Match(r, sku))
        p3 == SelectSeq(cand, P3Match)
    IN  IF q1 # << >> THEN parse_value(q1[1].value)
        ELSE IF p1 # << >> THEN parse_value(p1[1].value)
        ELSE IF p2 # << >> THEN parse_value(p2[1].value)
        ELSE IF p3 # << >> THEN parse_value(p3[1].value)
        ELSE NoValue

----------------------------------------------------------------------------
(* inventory_mcp.py: execute_allocation *)

Db == [inventory |-> inventory, locks |-> locks, orders |-> orders]

\* the statements of the transaction that can raise
FailPoints == {"none", "debit", "lock", "order", "commit"}

\* mutant: every branch debits on_hand_qty
DebitsOnHand_mut(strategy) == TRUE

\* which branches run UPDATE inventory SET on_hand_qty = on_hand_qty - :qty
DebitsOnHand(strategy) == strategy # "DIRECT_INBOUND"

\* mutant: a lock is inserted whenever an asn_id is passed
CreatesLock_mut(strategy, asn_id) == asn_id # ""

\* which branch runs INSERT INTO replenishment_locks
CreatesLock(strategy, asn_id) == strategy = "SS_BORROW_WITH_REPLENISH" /\ asn_id # ""

\* UPDATE inventory ... WHERE sku = :sku (no row: nothing changes)
DebitInventory(inv, sku, qty) ==
    IF sku \in DOMAIN inv THEN [inv EXCEPT ![sku].on_hand_qty = @ - qty] ELSE inv

\* f"lock_{order_id}_{asn_id}"
LockId(order_id, asn_id) == <<"lock", order_id, asn_id>>

NewLock(order_id, sku, asn_id, qty) ==
    [lock_id |-> LockId(order_id, asn_id), sku |-> sku, asn_id |-> asn_id, qty_locked |-> qty]

\* lock_id is the primary key: a second row with the same key is an IntegrityError
LockKeyTaken(lks, order_id, asn_id) == \E l \in lks : l.lock_id = LockId(order_id, asn_id)

InsertLock(lks, order_id, sku, asn_id, qty) == lks \cup {NewLock(order_id, sku, asn_id, qty)}

\* UPDATE orders SET status, fulfillment_source WHERE order_id = :oid
UpdateOrder(ords, oid, status, strat) ==
    IF oid \in DOMAIN ords
    THEN [ords EXCEPT ![oid] = [status |-> status, fulfillment_source |-> strat]]
    ELSE ords

AfterDebit(db, sku, strategy, qty) ==
    IF DebitsOnHand(strategy)
    THEN [db EXCEPT !.inventory = DebitInventory(db.inventory, sku, qty)]
    ELSE db

AfterLock(db, order_id, sku, strategy, qty, asn_id) ==
    LET d == AfterDebit(db, sku, strategy, qty)
    IN  IF CreatesLock(strategy, asn_id)
        THEN [d EXCEPT !.locks = InsertLock(d.locks, order_id, sku, asn_id, qty)]
        ELSE d

AfterOrder(db, order_id, sku, strategy, qty, asn_id) ==
    LET d == AfterLock(db, order_id, sku, strategy, qty, asn_id)
    IN  [d EXCEPT !.orders = UpdateOrder(d.orders, order_id, "ALLOCATED", strategy)]

\* the transaction raises at statement `fail`, or at the INSERT when the key is taken
Raises(db, order_id, strategy, asn_id, fail) ==
    \/ fail = "debit" /\ DebitsOnHand(strategy)
    \/ CreatesLock(strategy, asn_id)
         /\ (fail = "lock" \/ LockKeyTaken(db.locks, order_id, asn_id))
    \/ fail = "order"
    \/ fail = "commit"

\* the uncommitted writes of the session at the moment it raises
PartialWrites(db, order_id, sku, strategy, qty, asn_id, fail) ==
    IF fail = "debit" /\ DebitsOnHand(strategy) THEN db
    ELSE IF CreatesLock(strategy, asn_id)
              /\ (fail = "lock" \/ LockKeyTaken(db.locks, order_id, asn_id))
         THEN AfterDebit(db, sku, strategy, qty)
    ELSE IF fail = "order" THEN AfterLock(db, order_id, sku, strategy, qty, asn_id)
    ELSE AfterOrder(db, order_id, sku, strategy, qty, asn_id)

\* mutant: the writes made before the exception stay
Rollback_mut(pre, partial) == partial

\* db.rollback(): the store is as before the session's writes
Rollback(pre, partial) == pre

execute_allocation(db, order_id, sku, strategy, qty, asn_id, fail) ==
    IF Raises(db, order_id, strategy, asn_id, fail)
    THEN [raised |-> TRUE,
          db |-> Rollback(db, PartialWrites(db, order_id, sku, strategy, qty, asn_id, fail))]
    ELSE [raised |-> FALSE,
          db |-> AfterOrder(db, order_id, sku, strategy, qty, asn_id)]

----------------------------------------------------------------------------
(* promising_agent.py: the graph *)

\* mutant: the failure edge out of stage 1 skips stage 2
route_failed_free_stock_mut(status) ==
    IF status = "ALLOCATED" THEN "END" ELSE "direct_inbound_promising"

route_failed_free_stock(status) ==
    IF status = "ALLOCATED" THEN "END" ELSE "evaluate_safety_stock"

\* mutant: the edge out of stage 2 always ends the graph
route_failed_ss_mut(status) == "END"

route_failed_ss(status) ==
    IF status = "ALLOCATED" THEN "END" ELSE "direct_inbound_promising"

IdleAgent ==
    [node |-> "idle", order_id |-> "", sku |-> "", qty |-> 0, due_date |-> NULL,
     status |-> "", strategy |-> ""]

NoRead == [phase |-> "start", pos |-> [on_hand |-> 0, safety_stock |-> 0], inb |-> << >>]

\* the node's call of execute_allocation and the state update it returns; an
\* exception of the committer leaves graph.invoke without a result
Allocate(t, strategy, asn_id, next) ==
    \E fail \in FailPoints :
        LET s == ag[t]
            r == execute_allocation(Db, s.order_id, s.sku, strategy, s.qty, asn_id, fail)
        IN  /\ inventory' = r.db.inventory
            /\ locks' = r.db.locks
            /\ orders' = r.db.orders
            /\ IF r.raised
               THEN /\ ag' = [ag EXCEPT ![t].node = "raised"]
                    /\ UNCHANGED <<commits, direct_qty>>
               ELSE /\ ag' = [ag EXCEPT ![t].status = "ALLOCATED",
                                        ![t].strategy = strategy,
                                        ![t].node = next]
                    /\ commits' = [commits EXCEPT ![s.order_id] = @ + 1]
                    /\ direct_qty' = IF strategy = "DIRECT_INBOUND"
                                     THEN [direct_qty EXCEPT ![asn_id] = @ + s.qty]
                                     ELSE direct_qty

\* mutant: the node also stores the stage status on the order
Advance_mut(t, status, next) ==
    /\ ag' = [ag EXCEPT ![t].status = status, ![t].node = next]
    /\ orders' = UpdateOrder(orders, ag[t].order_id, status, "NONE")
    /\ UNCHANGED <<inventory, locks, commits, direct_qty>>

\* the node returns a status only and the graph moves on
Advance(t, status, next) ==
    /\ ag' = [ag EXCEPT ![t].status = status, ![t].node = next]
    /\ UNCHANGED <<storeVars, commits, direct_qty>>

\* an exception inside a node before any write
RaiseInNode(t) ==
    /\ ag' = [ag EXCEPT ![t].node = "raised"]
    /\ UNCHANGED <<storeVars, commits, direct_qty>>

\* mutant: the comparison forgets the safety stock
FreeStockSufficient_mut(on_hand, safety_stock, order_qty) == on_hand >= order_qty

FreeStockSufficient(on_hand, safety_stock, order_qty) == on_hand - safety_stock >= order_qty

CheckFreeStockWith(t, pos) ==
    IF FreeStockSufficient(pos.on_hand, pos.safety_stock, ag[t].qty)
    THEN Allocate(t, "FREE_STOCK", "", route_failed_free_stock("ALLOCATED"))
    ELSE Advance(t, "CHECK_SS", route_failed_free_stock("CHECK_SS"))

\* mutant: the guard only asks for some physical stock
CannotBorrow_mut(on_hand, order_qty) == on_hand <= 0

\* the guard of stage 2: physical stock must cover the order
CannotBorrow(on_hand, order_qty) == on_hand < order_qty

EtaDate(asn) == asn.eta_datetime[1]

\* mutant: any ASN inside the window qualifies, whatever is left of it
QualifiesForBorrow_mut(asn, target_date, order_qty) == EtaDate(asn) <= target_date

QualifiesForBorrow(asn, target_date, order_qty) ==
    EtaDate(asn) <= target_date /\ asn.available_qty >= order_qty

\* mutant: the scan does not look at the ETA
QualifyingAsns_mut(inb, target_date, order_qty) ==
    SelectSeq(inb, LAMBDA a : a.available_qty >= order_qty)

\* the scan of stage 2, in the order the reader returned the rows
QualifyingAsns(inb, target_date, order_qty) ==
    SelectSeq(inb, LAMBDA a : QualifiesForBorrow(a, target_date, order_qty))

EvaluateSafetyStockWith(t, pos, inb) ==
    LET s == ag[t]
        w == get_rule_config(rules, s.sku, "REPLENISH_WINDOW_DAYS")
        window_days == IF w.type = "none" THEN DefaultWindowDays ELSE IntOf(w)
        target_date == Today + window_days
        q == QualifyingAsns(inb, target_date, s.qty)
        allow_risky == get_rule_config(rules, s.sku, "ALLOW_RISKY_DEPLETION")
    IN  IF CannotBorrow(pos.on_hand, s.qty)
        THEN Advance(t, "CHECK_DIRECT", route_failed_ss("CHECK_DIRECT"))
        ELSE IF w.type # "none" /\ ~IntConvertible(w)
        THEN RaiseInNode(t)
        ELSE IF q # << >>
        THEN Allocate(t, "SS_BORROW_WITH_REPLENISH", q[1].asn_id, route_failed_ss("ALLOCATED"))
        ELSE IF Truthy(allow_risky)
        THEN Allocate(t, "SS_RISKY", "", route_failed_ss("ALLOCATED"))
        ELSE Advance(t, "CHECK_DIRECT", route_failed_ss("CHECK_DIRECT"))

\* order of the eta_datetime strings
EtaKeyLE(a, b) ==
    \/ a.eta_datetime[1] < b.eta_datetime[1]
    \/ a.eta_datetime[1] = b.eta_datetime[1] /\ a.eta_datetime[2] <= b.eta_datetime[2]

RECURSIVE InsertByEta(_, _)
InsertByEta(x, sorted) ==
    IF sorted = << >> THEN <<x>>
    ELSE IF EtaKeyLE(sorted[1], x) THEN <<sorted[1]>> \o InsertByEta(x, Tail(sorted))
    ELSE <<x>> \o sorted

\* mutant: the rows stay in the order the reader returned them
SortByEta_mut(seq) == seq

\* asns.sort(key=lambda x: x['eta_datetime']): stable
RECURSIVE SortByEta(_)
SortByEta(seq) ==
    IF seq = << >> THEN << >>
    ELSE InsertByEta(seq[Len(seq)], SortByEta(SubSeq(seq, 1, Len(seq) - 1)))

Deadline(due_date) == IF due_date # NULL THEN due_date[1] ELSE DateMax

FitsDirect(asn, due_date_obj, order_qty) ==
    EtaDate(asn) <= due_date_obj /\ asn.available_qty >= order_qty

FoundAsns(inb, due_date_obj, order_qty) ==
    SelectSeq(SortByEta(inb), LAMBDA a : FitsDirect(a, due_date_obj, order_qty))

DirectInboundWith(t, inb) ==
    LET s == ag[t]
        found == FoundAsns(inb, Deadline(s.due_date), s.qty)
    IN  IF found # << >>
        THEN Allocate(t, "DIRECT_INBOUND", found[1].asn_id, "END")
        ELSE /\ ag' = [ag EXCEPT ![t].status = "BACKORDER", ![t].strategy = "NONE",
                                 ![t].node = "END"]
             /\ UNCHANGED <<storeVars, commits, direct_qty>>

----------------------------------------------------------------------------
(* Actions: one caller at a time *)

Returned(t) == ag[t].node \in {"idle", "END", "raised"}

\* the graph runs the node the thread stands at
Visit(t) == trail' = [trail EXCEPT ![t] = Append(@, ag[t].node)]

run_agent(t, order_id, sku, qty, due_date) ==
    /\ Returned(t)
    /\ runs < MaxRuns
    /\ runs' = runs + 1
    /\ ag' = [ag EXCEPT ![t] = [node |-> "check_free_stock", order_id |-> order_id,
                                sku |-> sku, qty |-> qty, due_date |-> due_date,
                                status |-> "NEW", strategy |-> "NONE"]]
    /\ trail' = [trail EXCEPT ![t] = << >>]
    /\ UNCHANGED <<storeVars, asns, rules, loc, commits, direct_qty, resolved>>

\* the requests the callers make: order o1 is for SKU A and has no due date,
\* order o2 is for SKU A and is due in ten days, order o3 is for SKU B
Requests ==
    {<<"o1", "A", qty, NULL>> : qty \in 1..MaxQty}
    \cup {<<"o2", "A", qty, Some(Today + 10)>> : qty \in 1..MaxQty}
    \cup {<<"o3", "B", qty, NULL>> : qty \in 1..MaxQty}

RunAgent(t) ==
    \E r \in Requests : run_agent(t, r[1], r[2], r[3], r[4])

check_free_stock(t) ==
    /\ ag[t].node = "check_free_stock"
    /\ CheckFreeStockWith(t, get_inventory_position(inventory, ag[t].sku))
    /\ Visit(t)
    /\ UNCHANGED <<asns, rules, loc, runs, resolved>>

evaluate_safety_stock(t) ==
    /\ ag[t].node = "evaluate_safety_stock"
    /\ EvaluateSafetyStockWith(t, get_inventory_position(inventory, ag[t].sku),
                               get_inbound_asns(asns, locks, ag[t].sku))
    /\ Visit(t)
    /\ UNCHANGED <<asns, rules, loc, runs, resolved>>

direct_inbound_promising(t) ==
    /\ ag[t].node = "direct_inbound_promising"
    /\ DirectInboundWith(t, get_inbound_asns(asns, locks, ag[t].sku))
    /\ Visit(t)
    /\ UNCHANGED <<asns, rules, loc, runs, resolved>>

----------------------------------------------------------------------------
(* Actions: callers in parallel.  Every reader and the committer open a     *)
(* session of their own, so a node is a sequence of separate reads followed *)
(* by one transaction, and other callers' steps may come in between.        *)

\* inventory_mcp.get_inventory_position(sku), first statement of stages 1 and 2
ReadPosition(t) ==
    /\ ag[t].node \in {"check_free_stock", "evaluate_safety_stock"}
    /\ loc[t].phase = "start"
    /\ loc' = [loc EXCEPT ![t].phase = "have_pos",
                          ![t].pos = get_inventory_position(inventory, ag[t].sku)]
    /\ UNCHANGED <<storeVars, asns, rules, ag, runs, commits, direct_qty, trail, resolved>>

\* the rest of stage 1: the comparison and the commit
DecideFreeStock(t) ==
    /\ ag[t].node = "check_free_stock"
    /\ loc[t].phase = "have_pos"
    /\ CheckFreeStockWith(t, loc[t].pos)
    /\ loc' = [loc EXCEPT ![t] = NoRead]
    /\ Visit(t)
    /\ UNCHANGED <<asns, rules, runs, resolved>>

\* inventory_mcp.get_inbound_asns(sku) of stage 2 (reached when on_hand covers
\* the order) and of stage 3
ReadInbound(t) ==
    /\ \/ /\ ag[t].node = "evaluate_safety_stock"
          /\ loc[t].phase = "have_pos"
          /\ ~CannotBorrow(loc[t].pos.on_hand, ag[t].qty)
       \/ /\ ag[t].node = "direct_inbound_promising"
          /\ loc[t].phase = "start"
    /\ loc' = [loc EXCEPT ![t].phase = "have_inbound",
                          ![t].inb = get_inbound_asns(asns, locks, ag[t].sku)]
    /\ UNCHANGED <<storeVars, asns, rules, ag, runs, commits, direct_qty, trail, resolved>>

\* the rest of stage 2: the guard, the scan and the commit
DecideSafetyStock(t) ==
    /\ ag[t].node = "evaluate_safety_stock"
    /\ \/ loc[t].phase = "have_inbound"
       \/ loc[t].phase = "have_pos" /\ CannotBorrow(loc[t].pos.on_hand, ag[t].qty)
    /\ EvaluateSafetyStockWith(t, loc[t].pos, loc[t].inb)
    /\ loc' = [loc EXCEPT ![t] = NoRead]
    /\ Visit(t)
    /\ UNCHANGED <<asns, rules, runs, resolved>>

\* the rest of stage 3: the sort, the scan and the commit
DecideDirectInbound(t) ==
    /\ ag[t].node = "direct_inbound_promising"
    /\ loc[t].phase = "have_inbound"
    /\ DirectInboundWith(t, loc[t].inb)
    /\ loc' = [loc EXCEPT ![t] = NoRead]
    /\ Visit(t)
    /\ UNCHANGED <<asns, rules, runs, resolved>>

----------------------------------------------------------------------------
(* Initial states *)

SafetyLevels == {0, 1}
EtaDays == {Today + 2, Today + 20}

InventoryTables ==
    {[sku \in SKUs |->
        IF sku = "A" THEN [on_hand_qty |-> oh, safety_stock_qty |-> ss]
        ELSE [on_hand_qty |-> 1, safety_stock_qty |-> 0]] :
     oh \in 0..MaxOnHand, ss \in SafetyLevels}

AsnRow(id, sku, qty, status, day, tod) ==
    [asn_id |-> id, sku |-> sku, qty |-> qty, status |-> status, eta_datetime |-> <<day, tod>>]

\* ASN n1 is open, of any quantity and ETA; ASN n2 is of the largest quantity and
\* is open with any ETA, or CLOSED; the store may hold the rows in either order
SecondEtaDays == {Today + 6, Today + 20}

SecondAsns ==
    {AsnRow("n2", "A", MaxAsnQty, "IN_TRANSIT", d, 0) : d \in SecondEtaDays}
    \cup {AsnRow("n2", "A", MaxAsnQty, "CLOSED", Today + 2, 0)}

AsnTables ==
    UNION {{<<AsnRow("n1", "A", q1, "IN_TRANSIT", d1, 1), n2>>,
            <<n2, AsnRow("n1", "A", q1, "IN_TRANSIT", d1, 1)>>} :
           q1 \in 1..MaxAsnQty, d1 \in EtaDays, n2 \in SecondAsns}

Rule(name, scope, sku, start, end, value) ==
    [rule_name |-> name, scope |-> scope, sku |-> sku, start_date |-> start,
     end_date |-> end, value |-> value]

RuleTables ==
    {<< >>,
     <<Rule("REPLENISH_WINDOW_DAYS", "GLOBAL", NULL, NULL, NULL, "5"),
       Rule("ALLOW_RISKY_DEPLETION", "GLOBAL", NULL, NULL, NULL, "True")>>,
     <<Rule("REPLENISH_WINDOW_DAYS", "GLOBAL", NULL, NULL, NULL, "5"),
       Rule("ALLOW_RISKY_DEPLETION", "GLOBAL", NULL, NULL, NULL, "False"),
       Rule("ALLOW_RISKY_DEPLETION", "ITEM", Some("A"), NULL, NULL, "True")>>,
     <<Rule("REPLENISH_WINDOW_DAYS", "ITEM", Some("A"), Some(Today - 1), NULL, "abc"),
       Rule("ALLOW_RISKY_DEPLETION", "GLOBAL", NULL, NULL, NULL, "0")>>}

\* locks left by earlier evaluations of other orders
InitialLocks ==
    {{}, {[lock_id |-> LockId("o0", "n1"), sku |-> "A", asn_id |-> "n1", qty_locked |-> 1]}}

Init ==
    /\ inventory \in InventoryTables
    /\ asns \in AsnTables
    /\ locks \in InitialLocks
    /\ orders = [o \in OrderIds |-> [status |-> "NEW", fulfillment_source |-> "NULL"]]
    /\ rules \in RuleTables
    /\ ag = [t \in Threads |-> IdleAgent]
    /\ loc = [t \in Threads |-> NoRead]
    /\ runs = 0
    /\ commits = [o \in OrderIds |-> 0]
    /\ direct_qty = [a \in AsnIds |-> 0]
    /\ trail = [t \in Threads |-> << >>]
    /\ resolved = NoCall

Next ==
    \E t \in SeqThreads :
        \/ RunAgent(t)
        \/ check_free_stock(t)
        \/ evaluate_safety_stock(t)
        \/ direct_inbound_promising(t)

Spec == Init /\ [][Next]_vars

\* the parallel callers evaluate different orders, each while it is still NEW
Fresh(order_id) ==
    /\ orders[order_id].status = "NEW"
    /\ \A u \in Threads : Returned(u) \/ ag[u].order_id # order_id

RunAgentFresh(t) ==
    \E r \in Requests : Fresh(r[1]) /\ run_agent(t, r[1], r[2], r[3], r[4])

NextPar ==
    \E t \in Threads :
        \/ RunAgentFresh(t)
        \/ ReadPosition(t)
        \/ DecideFreeStock(t)
        \/ ReadInbound(t)
        \/ DecideSafetyStock(t)
        \/ DecideDirectInbound(t)

\* the parallel runs start from the stores without earlier locks, under the
\* rule tables of the scenarios
InitPar ==
    /\ Init
    /\ locks = {}
    /\ \E i \in 1..Len(rules) : rules[i].value = "True"

SpecPar == InitPar /\ [][NextPar]_vars

\* the locks earlier orders hold on one ASN: none, one, or the two that racing callers
\* leave behind, which together may exceed the ASN
LocksOn(asn_id) ==
    {{}}
    \cup {{NewLock("o0", "A", asn_id, q)} : q \in 1..MaxAsnQty}
    \cup {{NewLock("o0", "A", asn_id, q), NewLock("o9", "A", asn_id, q2)} :
              q \in 1..MaxAsnQty, q2 \in 1..MaxAsnQty}

LeftLocks ==
    {l1 \cup l2 : l1 \in LocksOn("n1"), l2 \in {{}, {NewLock("o0", "A", "n2", MaxAsnQty)}}}

\* one caller at a time on a store that earlier callers left with any of these locks
InitOverLocked ==
    /\ inventory \in {i \in InventoryTables : /\ i["A"].safety_stock_qty = 0
                                               /\ i["A"].on_hand_qty \in {0, MaxOnHand}}
    /\ asns \in AsnTables
    /\ locks \in LeftLocks
    /\ orders = [o \in OrderIds |-> [status |-> "NEW", fulfillment_source |-> "NULL"]]
    /\ rules = << >>
    /\ ag = [t \in Threads |-> IdleAgent]
    /\ loc = [t \in Threads |-> NoRead]
    /\ runs = 0
    /\ commits = [o \in OrderIds |-> 0]
    /\ direct_qty = [a \in AsnIds |-> 0]
    /\ trail = [t \in Threads |-> << >>]
    /\ resolved = NoCall

SpecOverLocked == InitOverLocked /\ [][Next]_vars

----------------------------------------------------------------------------
(* The resolver called on its own, over the rule tables the schema allows *)

MaxRules == 2

RuleNames == {"REPLENISH_WINDOW_DAYS", "ALLOW_RISKY_DEPLETION"}

\* scope and sku of a rule: GLOBAL without a sku, or ITEM for one SKU
RuleKeys == {<<"GLOBAL", NULL>>} \cup {<<"ITEM", Some(sku)>> : sku \in SKUs}

\* the value a rule carries tells which scope and SKU it was written for
ValueOfKey(key) ==
    CASE key = <<"GLOBAL", NULL>> -> "5"
      [] key = <<"ITEM", Some("A")>> -> "True"
      [] OTHER -> "abc"

RuleStartDates == {NULL, Some(Today), Some(Today + 1)}
RuleEndDates == {NULL, Some(Today - 1), Some(Today)}

RuleRows ==
    {Rule(name, key[1], key[2], start, end, ValueOfKey(key)) :
        name \in RuleNames, key \in RuleKeys, start \in RuleStartDates, end \in RuleEndDates}

\* (rule_name, scope, sku) is the primary key of business_rules
RuleKeyOf(r) == <<r.rule_name, r.scope, r.sku>>

AnyRuleTables ==
    {tab \in UNION {[1..n -> RuleRows] : n \in 0..MaxRules} :
        \A i, j \in 1..Len(tab) : i # j => RuleKeyOf(tab[i]) # RuleKeyOf(tab[j])}

InitRules ==
    /\ inventory = [sku \in SKUs |-> [on_hand_qty |-> 0, safety_stock_qty |-> 0]]
    /\ asns = << >>
    /\ locks = {}
    /\ orders = [o \in OrderIds |-> [status |-> "NEW", fulfillment_source |-> "NULL"]]
    /\ rules \in AnyRuleTables
    /\ ag = [t \in Threads |-> IdleAgent]
    /\ loc = [t \in Threads |-> NoRead]
    /\ runs = 0
    /\ commits = [o \in OrderIds |-> 0]
    /\ direct_qty = [a \in AsnIds |-> 0]
    /\ trail = [t \in Threads |-> << >>]
    /\ resolved = NoCall

\* a call get_rule_config(sku, rule_name) and the value it returns
Resolve(sku, rule_name) ==
    /\ resolved' = [sku |-> sku, rule_name |-> rule_name,
                    value |-> get_rule_config(rules, sku, rule_name)]
    /\ UNCHANGED <<storeVars, asns, rules, ag, loc, runs, commits, direct_qty, trail>>

NextRules == \E sku \in SKUs, rule_name \in RuleNames : Resolve(sku, rule_name)

SpecRules == InitRules /\ [][NextRules]_vars

----------------------------------------------------------------------------
(* Properties *)

Running(t) == ~Returned(t)

\* the step in which thread t's evaluation returns its result
Completes(t) == Running(t) /\ ag'[t].node = "END"

\* the step in which thread t's evaluation ends with an exception
Fails(t) == Running(t) /\ ag'[t].node = "raised"

DebitingStrategies == {"FREE_STOCK", "SS_RISKY", "SS_BORROW_WITH_REPLENISH"}

\* C1: a completed evaluation returns one of the five strategies, status ALLOCATED
\* exactly when the strategy is not NONE, and BACKORDER otherwise; never NEW or a
\* stage status.
C1_TerminalOutcome ==
    \A t \in Threads :
        ag[t].node = "END" =>
            /\ ag[t].strategy \in Strategies
            /\ ag[t].status \in {"ALLOCATED", "BACKORDER"}
            /\ (ag[t].status = "ALLOCATED") <=> (ag[t].strategy # "NONE")

C1_Witness ==
    \E t \in Threads :
        ag[t].node = "END" /\ ag[t].status = "BACKORDER" /\ ag[t].strategy = "NONE"

\* C2: for every order_id at most one allocation is ever committed, however often
\* the caller invokes the evaluation.
C2_AtMostOneAllocation ==
    \A o \in OrderIds : commits[o] <= 1

\* C3: when an evaluation has returned, the stored order carries the returned
\* outcome: ALLOCATED with the chosen strategy, or BACKORDER with NONE.
C3_StoredMatchesReturned ==
    \A t \in Threads :
        ag[t].node = "END" =>
            /\ orders[ag[t].order_id].status = ag[t].status
            /\ orders[ag[t].order_id].fulfillment_source = ag[t].strategy

\* C4: a commit is all-or-nothing: a step that ends an evaluation with an exception
\* leaves inventory, locks and orders as they were, and a step that debits stock or
\* adds a lock also sets the order of the committing evaluation to ALLOCATED with
\* the strategy applied.
C4_AllOrNothing ==
    [][/\ \A t \in Threads : Fails(t) => UNCHANGED storeVars
       /\ (inventory' # inventory \/ locks' # locks) =>
             \E t \in Threads :
                /\ Completes(t)
                /\ ag'[t].status = "ALLOCATED"
                /\ orders'[ag[t].order_id] =
                      [status |-> "ALLOCATED", fulfillment_source |-> ag'[t].strategy]]_vars

\* a commit of stage 2 has failed (the window rule is usable, so the exception is
\* the committer's)
C4_Witness ==
    \E t \in Threads :
        /\ ag[t].node = "raised"
        /\ ag[t].status = "CHECK_SS"
        /\ get_rule_config(rules, ag[t].sku, "REPLENISH_WINDOW_DAYS").type # "str"

AsnLockedWithinQty ==
    \A i \in 1..Len(asns) : LockedQty(locks, asns[i].asn_id) <= asns[i].qty

\* C5: with evaluations run one at a time, the quantity locked against an ASN never
\* exceeds the ASN's qty.
C5_LocksWithinAsnQty == AsnLockedWithinQty

\* an ASN is locked to the full by a lock of the engine
C5_Witness ==
    \E i \in 1..Len(asns) :
        /\ LockedQty(locks, asns[i].asn_id) = asns[i].qty
        /\ \E l \in locks : l.asn_id = asns[i].asn_id /\ l.lock_id[2] \in OrderIds

OnHandNonNegative ==
    \A sku \in DOMAIN inventory : inventory[sku].on_hand_qty >= 0

\* C6: with evaluations run one at a time, on_hand_qty never becomes negative.
C6_OnHandNeverNegative == OnHandNonNegative

\* safety stock was borrowed down to the last unit
C6_Witness ==
    \E t \in Threads :
        /\ ag[t].node = "END"
        /\ ag[t].strategy \in {"SS_RISKY", "SS_BORROW_WITH_REPLENISH"}
        /\ inventory[ag[t].sku].on_hand_qty = 0

\* C7: with evaluations in parallel no interleaving over-allocates: on_hand_qty
\* never drops below 0 and a FREE_STOCK commit never takes it below safety stock.
C7_NoOverAllocation ==
    [][/\ \A sku \in DOMAIN inventory : inventory'[sku].on_hand_qty >= 0
       /\ \A t \in Threads :
             (Completes(t) /\ ag'[t].strategy = "FREE_STOCK") =>
                 inventory'[ag[t].sku].on_hand_qty >= inventory'[ag[t].sku].safety_stock_qty]_vars

\* C8: with evaluations in parallel the quantity locked against an ASN never
\* exceeds the ASN's qty.
C8_ParallelLocksWithinAsnQty ==
    \A i \in 1..Len(asns) :
        SumLocked({l \in locks : l.asn_id = asns[i].asn_id /\ l.lock_id[2] \in OrderIds})
            <= asns[i].qty

\* C9: a completed evaluation lowers the on_hand_qty of its SKU by the order qty when
\* its outcome is FREE_STOCK, SS_RISKY or SS_BORROW_WITH_REPLENISH and leaves the
\* inventory as it was otherwise; no other step changes the inventory.
C9_OnHandEffect ==
    [][\/ /\ inventory' = inventory
          /\ \A t \in Threads : Completes(t) => ag'[t].strategy \notin DebitingStrategies
       \/ \E t \in Threads :
             /\ Completes(t)
             /\ ag'[t].strategy \in DebitingStrategies
             /\ ag[t].sku \in DOMAIN inventory
             /\ inventory' = [inventory EXCEPT ![ag[t].sku].on_hand_qty = @ - ag[t].qty]]_vars

C9_Witness ==
    \E t \in Threads :
        /\ ag[t].node = "END"
        /\ ag[t].strategy = "SS_BORROW_WITH_REPLENISH"
        /\ commits[ag[t].order_id] = 1
        /\ inventory["B"].on_hand_qty = 1

\* the replenishment window resolved for a SKU, in days
WindowDays(sku) ==
    LET w == get_rule_config(rules, sku, "REPLENISH_WINDOW_DAYS")
    IN  IF w.type = "none" THEN DefaultWindowDays ELSE IntOf(w)

\* the open ASN rows of a SKU that arrive inside the window with at least qty not locked
OpenWithRoom(sku, qty) ==
    {asns[i].asn_id : i \in {j \in 1..Len(asns) :
        /\ asns[j].sku = sku
        /\ asns[j].status # "CLOSED"
        /\ asns[j].eta_datetime[1] <= Today + WindowDays(sku)
        /\ asns[j].qty - LockedQty(locks, asns[j].asn_id) >= qty}}

\* C10: a completed SS_BORROW_WITH_REPLENISH evaluation adds exactly one lock, of the
\* order qty, against an open ASN of the SKU that arrives inside the window and had
\* that much available; every other step leaves the locks as they were.
C10_LockEffect ==
    [][\/ /\ locks' = locks
          /\ \A t \in Threads :
                Completes(t) => ag'[t].strategy # "SS_BORROW_WITH_REPLENISH"
       \/ \E t \in Threads :
             /\ Completes(t)
             /\ ag'[t].strategy = "SS_BORROW_WITH_REPLENISH"
             /\ \E l \in locks' \ locks :
                   /\ locks' = locks \cup {l}
                   /\ l.qty_locked = ag[t].qty
                   /\ l.sku = ag[t].sku
                   /\ l.asn_id \in OpenWithRoom(ag[t].sku, ag[t].qty)]_vars

C10_Witness ==
    \E t \in Threads :
        /\ ag[t].node = "END"
        /\ ag[t].strategy = "SS_BORROW_WITH_REPLENISH"
        /\ \E l \in locks : l.lock_id[2] = ag[t].order_id /\ l.qty_locked = ag[t].qty

----------------------------------------------------------------------------
(* Properties of the stages *)

\* the step in which thread t runs the node it stands at
Steps(t) == Running(t) /\ ag'[t] # ag[t]

OnHand(sku) == IF sku \in DOMAIN inventory THEN inventory[sku].on_hand_qty ELSE 0

SafetyStock(sku) == IF sku \in DOMAIN inventory THEN inventory[sku].safety_stock_qty ELSE 0

\* free stock covers the order of thread t
FreeCovers(t) == OnHand(ag[t].sku) - SafetyStock(ag[t].sku) >= ag[t].qty

\* C11: a completed evaluation has strategy FREE_STOCK exactly when on_hand_qty minus
\* safety_stock_qty is at least the order qty; it is then decided by stage 1 alone,
\* which debits the full order qty, and stage 1 never declines such an order.
C11_FreeStockIff ==
    [][\A t \in Threads :
          /\ Completes(t) =>
                /\ (ag'[t].strategy = "FREE_STOCK") <=> FreeCovers(t)
                /\ ag'[t].strategy = "FREE_STOCK" =>
                      /\ trail'[t] = <<"check_free_stock">>
                      /\ inventory'[ag[t].sku].on_hand_qty =
                            inventory[ag[t].sku].on_hand_qty - ag[t].qty
          /\ (Steps(t) /\ ag[t].node = "check_free_stock" /\ FreeCovers(t)) =>
                \/ Fails(t)
                \/ Completes(t) /\ ag'[t].strategy = "FREE_STOCK"]_vars

C11_Witness ==
    \E t \in Threads :
        /\ ag[t].node = "END"
        /\ ag[t].strategy = "FREE_STOCK"
        /\ trail[t] = <<"check_free_stock">>
        /\ inventory[ag[t].sku].safety_stock_qty > 0

\* stage 2 may borrow for the order of thread t: free stock does not cover it,
\* physical stock does, and an open ASN inside the window has room for it
BorrowCovers(t) ==
    /\ ~FreeCovers(t)
    /\ OnHand(ag[t].sku) >= ag[t].qty
    /\ OpenWithRoom(ag[t].sku, ag[t].qty) # {}

\* C12: a completed evaluation has strategy SS_BORROW_WITH_REPLENISH exactly when free
\* stock is insufficient, on_hand_qty covers the order and some open ASN of the SKU
\* arrives by today + REPLENISH_WINDOW_DAYS (7 without a rule) with available_qty
\* of at least the order qty; the lock is against such an ASN, and stage 2 never
\* declines such an order.
C12_BorrowIff ==
    [][\A t \in Threads :
          /\ Completes(t) =>
                /\ (ag'[t].strategy = "SS_BORROW_WITH_REPLENISH") <=> BorrowCovers(t)
                /\ ag'[t].strategy = "SS_BORROW_WITH_REPLENISH" =>
                      \E l \in locks' \ locks :
                          l.asn_id \in OpenWithRoom(ag[t].sku, ag[t].qty)
          /\ (Steps(t) /\ ag[t].node = "evaluate_safety_stock" /\ BorrowCovers(t)) =>
                \/ Fails(t)
                \/ Completes(t) /\ ag'[t].strategy = "SS_BORROW_WITH_REPLENISH"]_vars

\* borrowed under the default window against an ASN that a window of 5 days excludes
C12_Witness ==
    \E t \in Threads :
        /\ ag[t].node = "END"
        /\ ag[t].strategy = "SS_BORROW_WITH_REPLENISH"
        /\ get_rule_config(rules, ag[t].sku, "REPLENISH_WINDOW_DAYS") = NoValue
        /\ \E l \in locks : /\ l.lock_id[2] = ag[t].order_id
                            /\ \E i \in 1..Len(asns) : /\ asns[i].asn_id = l.asn_id
                                                       /\ asns[i].eta_datetime[1] = Today + 6

\* ALLOW_RISKY_DEPLETION resolves for the SKU to a value Python takes as true
RiskyAllowed(sku) ==
    LET v == get_rule_config(rules, sku, "ALLOW_RISKY_DEPLETION")
    IN  \/ v.type = "bool" /\ v.b
        \/ v.type = "int" /\ v.i # 0
        \/ v.type = "str" /\ v.s # ""

RiskyCovers(t) ==
    /\ ~FreeCovers(t)
    /\ OnHand(ag[t].sku) >= ag[t].qty
    /\ OpenWithRoom(ag[t].sku, ag[t].qty) = {}
    /\ RiskyAllowed(ag[t].sku)

\* C13: a completed evaluation has strategy SS_RISKY exactly when free stock is
\* insufficient, on_hand_qty covers the order, no ASN qualifies for a borrow and
\* ALLOW_RISKY_DEPLETION resolves to a truthy value; with no such rule the strategy
\* is never SS_RISKY.
C13_RiskyIff ==
    [][\A t \in Threads :
          Completes(t) =>
              /\ (ag'[t].strategy = "SS_RISKY") <=> RiskyCovers(t)
              /\ get_rule_config(rules, ag[t].sku, "ALLOW_RISKY_DEPLETION") = NoValue
                    => ag'[t].strategy # "SS_RISKY"]_vars

\* a risky depletion while an open ASN of the SKU exists outside the window
C13_Witness ==
    \E t \in Threads :
        /\ ag[t].node = "END"
        /\ ag[t].strategy = "SS_RISKY"
        /\ \E i \in 1..Len(asns) : /\ asns[i].sku = ag[t].sku
                                   /\ asns[i].status # "CLOSED"
                                   /\ asns[i].qty >= ag[t].qty
                                   /\ asns[i].eta_datetime[1] > Today + WindowDays(ag[t].sku)

\* the positions of the open ASN rows of the order's SKU that arrive by its due date
\* (any date when it has none) with at least the order qty not locked
FitsOrder(t) ==
    {i \in 1..Len(asns) :
        /\ asns[i].sku = ag[t].sku
        /\ asns[i].status # "CLOSED"
        /\ ag[t].due_date = NULL \/ asns[i].eta_datetime[1] <= ag[t].due_date[1]
        /\ asns[i].qty - LockedQty(locks, asns[i].asn_id) >= ag[t].qty}

NotLaterThan(i, j) ==
    \/ asns[i].eta_datetime[1] < asns[j].eta_datetime[1]
    \/ /\ asns[i].eta_datetime[1] = asns[j].eta_datetime[1]
       /\ asns[i].eta_datetime[2] <= asns[j].eta_datetime[2]

\* C14: when stages 1 and 2 did not allocate, stage 3 ends the evaluation with
\* DIRECT_INBOUND exactly when some open ASN of the SKU arrives by the due date (no
\* limit without one) with available_qty of at least the order qty, the ASN committed
\* against is one of the earliest such ASNs, and otherwise the outcome is BACKORDER
\* with strategy NONE; no other stage gives DIRECT_INBOUND.
C14_DirectInboundIff ==
    [][\A t \in Threads :
          /\ (Steps(t) /\ ag[t].node = "direct_inbound_promising" /\ ~Fails(t)) =>
                /\ Completes(t)
                /\ (ag'[t].strategy = "DIRECT_INBOUND") <=> (FitsOrder(t) # {})
                /\ FitsOrder(t) # {} =>
                      /\ ag'[t].status = "ALLOCATED"
                      /\ \E i \in FitsOrder(t) :
                            /\ direct_qty' = [direct_qty EXCEPT ![asns[i].asn_id] = @ + ag[t].qty]
                            /\ \A j \in FitsOrder(t) : NotLaterThan(i, j)
                /\ FitsOrder(t) = {} =>
                      /\ ag'[t].status = "BACKORDER"
                      /\ ag'[t].strategy = "NONE"
                      /\ direct_qty' = direct_qty
          /\ (Completes(t) /\ ag'[t].strategy \in {"DIRECT_INBOUND", "NONE"}) =>
                ag[t].node = "direct_inbound_promising"]_vars

\* DIRECT_INBOUND against the earlier of two fitting ASNs, stored after the later one
C14_Witness ==
    \E t \in Threads :
        /\ ag[t].node = "END"
        /\ ag[t].strategy = "DIRECT_INBOUND"
        /\ locks = {}
        /\ Len(asns) = 2
        /\ asns[1].sku = ag[t].sku /\ asns[2].sku = ag[t].sku
        /\ asns[1].status # "CLOSED"
        /\ asns[1].qty >= ag[t].qty
        /\ asns[2].eta_datetime[1] < asns[1].eta_datetime[1]
        /\ ag[t].due_date # NULL
        /\ asns[1].eta_datetime[1] <= ag[t].due_date[1]
        /\ direct_qty[asns[2].asn_id] = ag[t].qty
        /\ direct_qty[asns[1].asn_id] = 0

StageOrder == <<"check_free_stock", "evaluate_safety_stock", "direct_inbound_promising">>

\* C17: the stages an evaluation has visited are always an initial part of free stock,
\* safety stock, direct inbound, each at most once; an evaluation still under way
\* is at the stage after the ones it visited and none of them allocated; after an
\* ALLOCATED outcome the evaluation is over; BACKORDER is reached only after the
\* direct-inbound stage ran last.
C17_StageOrder ==
    \A t \in Threads :
        /\ Len(trail[t]) <= Len(StageOrder)
        /\ trail[t] = SubSeq(StageOrder, 1, Len(trail[t]))
        /\ Running(t) =>
              /\ Len(trail[t]) < Len(StageOrder)
              /\ ag[t].node = StageOrder[Len(trail[t]) + 1]
              /\ ag[t].status # "ALLOCATED"
              /\ ag[t].strategy = "NONE"
        /\ ag[t].status = "ALLOCATED" => ag[t].node = "END"
        /\ ag[t].status = "BACKORDER" => ag[t].node = "END" /\ trail[t] = StageOrder

\* an evaluation that went through all three stages and ended in BACKORDER
C17_Witness ==
    \E t \in Threads :
        /\ ag[t].status = "BACKORDER"
        /\ trail[t] = StageOrder

\* the step in which thread t's stage hands the order on to the next stage
Advances(t) == Running(t) /\ Running(t)' /\ ag'[t].node # ag[t].node

\* C18: a stage that advances to the next stage instead of allocating leaves
\* inventory, the replenishment locks and the order records exactly as they were, and
\* the ASNs and rules the stages read with them.
C18_AdvanceLeavesStore ==
    [][\A t \in Threads :
          Advances(t) => /\ inventory' = inventory
                         /\ locks' = locks
                         /\ orders' = orders
                         /\ asns' = asns
                         /\ rules' = rules]_vars

\* an order that stages 1 and 2 both handed on, its record still as it was created
C18_Witness ==
    \E t \in Threads :
        /\ ag[t].node = "direct_inbound_promising"
        /\ trail[t] = <<"check_free_stock", "evaluate_safety_stock">>
        /\ orders[ag[t].order_id].status = "NEW"
        /\ commits[ag[t].order_id] = 0

\* the quantity of an ASN row that no lock holds, never below 0
Unlocked(i) ==
    LET left == asns[i].qty - SumLocked({l \in locks : l.asn_id = asns[i].asn_id})
    IN  IF left > 0 THEN left ELSE 0

\* the positions of the rows of a SKU the reader has to return
Readable(sku) ==
    {i \in 1..Len(asns) : asns[i].sku = sku /\ asns[i].status # "CLOSED" /\ Unlocked(i) > 0}

\* C19: for every SKU, get_inbound_asns returns one entry for each ASN of the SKU
\* that is not CLOSED and has a positive available_qty, and nothing else, in the order
\* of the rows; each entry carries available_qty = max(0, qty - sum of the qty_locked
\* of the locks on that asn_id), which is positive and at most the ASN's qty.
C19_InboundReader ==
    \A sku \in SKUs :
        LET out == get_inbound_asns(asns, locks, sku)
        IN  /\ Len(out) = Cardinality(Readable(sku))
            /\ \A i \in Readable(sku) :
                  \E k \in 1..Len(out) :
                      /\ out[k].asn_id = asns[i].asn_id
                      /\ out[k].qty = asns[i].qty
                      /\ out[k].eta_datetime = asns[i].eta_datetime
                      /\ out[k].available_qty = Unlocked(i)
            /\ \A k \in 1..Len(out) :
                  /\ out[k].available_qty > 0
                  /\ out[k].available_qty <= out[k].qty
                  /\ \E i \in Readable(sku) : asns[i].asn_id = out[k].asn_id

\* stage 3 backordered an order although an open ASN of its SKU is large enough:
\* the reader left the ASN out because it is locked beyond its qty
C19_Witness ==
    \E t \in Threads :
        /\ ag[t].node = "END"
        /\ ag[t].status = "BACKORDER"
        /\ \E i \in 1..Len(asns) :
              /\ asns[i].sku = ag[t].sku
              /\ asns[i].status # "CLOSED"
              /\ asns[i].qty >= ag[t].qty
              /\ SumLocked({l \in locks : l.asn_id = asns[i].asn_id}) > asns[i].qty
        /\ get_inbound_asns(asns, locks, ag[t].sku) = << >>

\* C20: for every ASN, the qty_locked of the locks on it plus the quantities of the
\* orders allocated DIRECT_INBOUND against it never exceed the ASN's qty, after any
\* sequence of evaluations run one at a time in which no order is allocated twice.
C20_CommittedWithinAsnQty ==
    (\A o \in OrderIds : commits[o] <= 1) =>
        \A i \in 1..Len(asns) :
            LockedQty(locks, asns[i].asn_id) + direct_qty[asns[i].asn_id] <= asns[i].qty

----------------------------------------------------------------------------
(* Properties of the configuration resolver *)

\* the positions of the ITEM rules written for the SKU and name of the last call
ItemRules ==
    {i \in 1..Len(rules) : /\ rules[i].rule_name = resolved.rule_name
                           /\ rules[i].scope = "ITEM"
                           /\ rules[i].sku = <<resolved.sku>>}

GlobalRules ==
    {i \in 1..Len(rules) : rules[i].rule_name = resolved.rule_name /\ rules[i].scope = "GLOBAL"}

HasDate(i) == rules[i].start_date # << >> \/ rules[i].end_date # << >>

WindowHasToday(i) ==
    /\ rules[i].start_date # << >> => rules[i].start_date[1] <= Today
    /\ rules[i].end_date # << >> => Today <= rules[i].end_date[1]

ValuesOf(rows) == {parse_value(rules[i].value) : i \in rows}

\* C15: get_rule_config returns the value of an ITEM rule for the SKU whose dated
\* window contains today; without one, of an undated ITEM rule for the SKU; without
\* one, of a GLOBAL rule of that name; without one, no value. An ITEM rule whose dated
\* window does not contain today is never the one returned.
C15_Precedence ==
    resolved.rule_name # "" =>
        LET tier1 == {i \in ItemRules : HasDate(i) /\ WindowHasToday(i)}
            tier2 == {i \in ItemRules : ~HasDate(i)}
        IN  /\ tier1 # {} => resolved.value \in ValuesOf(tier1)
            /\ (tier1 = {} /\ tier2 # {}) => resolved.value \in ValuesOf(tier2)
            /\ (tier1 = {} /\ tier2 = {} /\ GlobalRules # {}) =>
                  resolved.value \in ValuesOf(GlobalRules)
            /\ (tier1 = {} /\ tier2 = {} /\ GlobalRules = {}) => resolved.value = NoValue
            /\ \A i \in ItemRules :
                  (HasDate(i) /\ ~WindowHasToday(i)) =>
                      resolved.value # parse_value(rules[i].value)

\* an ITEM rule inside its window returned although a GLOBAL rule of the name exists
C15_Witness ==
    /\ resolved.rule_name # ""
    /\ GlobalRules # {}
    /\ \E i \in ItemRules : /\ HasDate(i)
                            /\ resolved.value = parse_value(rules[i].value)
                            /\ resolved.value \notin ValuesOf(GlobalRules)

\* the days on which an ITEM rule is active, by the dates it carries
ActiveToday(r) ==
    CASE r.start_date # << >> /\ r.end_date = << >> -> Today >= r.start_date[1]
      [] r.start_date = << >> /\ r.end_date # << >> -> Today <= r.end_date[1]
      [] r.start_date # << >> /\ r.end_date # << >> ->
            r.start_date[1] <= Today /\ Today <= r.end_date[1]
      [] OTHER -> TRUE

\* C16: the ITEM rule for the SKU and name of a call is the one whose value is
\* returned exactly when it is active: with only start_date, from that day on; with
\* only end_date, up to that day; with both, on the days between them; with neither,
\* always.
C16_DateActivation ==
    resolved.rule_name # "" =>
        \A i \in ItemRules :
            (resolved.value = parse_value(rules[i].value)) <=> ActiveToday(rules[i])

\* a rule that starts today and has no end is returned
C16_Witness ==
    /\ resolved.rule_name # ""
    /\ \E i \in ItemRules : /\ rules[i].start_date = <<Today>>
                            /\ rules[i].end_date = << >>
                            /\ resolved.value = parse_value(rules[i].value)

----------------------------------------------------------------------------
(* The decision does not depend on the order of the ASN rows *)

\* the ASN rows as the store would return them in another order
RowsInOrder(p) == [i \in 1..Len(asns) |-> asns[p[i]]]

\* what the reader returns for the order of thread t when the rows come in order p
InboundInOrder(t, p) == get_inbound_asns(RowsInOrder(p), locks, ag[t].sku)

\* status and strategy stage 2 returns for the order of thread t when the reader
\* returned inb
Stage2Returns(t, inb) ==
    IF OnHand(ag[t].sku) < ag[t].qty THEN <<"CHECK_DIRECT", "NONE">>
    ELSE IF QualifyingAsns(inb, Today + WindowDays(ag[t].sku), ag[t].qty) # << >>
    THEN <<"ALLOCATED", "SS_BORROW_WITH_REPLENISH">>
    ELSE IF RiskyAllowed(ag[t].sku) THEN <<"ALLOCATED", "SS_RISKY">>
    ELSE <<"CHECK_DIRECT", "NONE">>

\* status and strategy stage 3 returns when the reader returned inb
Stage3Returns(t, inb) ==
    IF FoundAsns(inb, Deadline(ag[t].due_date), ag[t].qty) # << >>
    THEN <<"ALLOCATED", "DIRECT_INBOUND">>
    ELSE <<"BACKORDER", "NONE">>

\* C21: for a fixed store, date and order, the status and strategy a step of stage 2
\* or stage 3 returns are the ones the stage computes from the reader's rows in every
\* order the store can hand the ASN rows over; only the ASN that is locked or
\* committed against may differ.
C21_RowOrderIndependent ==
    [][\A t \in Threads :
          (Steps(t) /\ ~Fails(t)) =>
              \A p \in Permutations(1..Len(asns)) :
                  /\ ag[t].node = "evaluate_safety_stock" =>
                        <<ag'[t].status, ag'[t].strategy>> = Stage2Returns(t, InboundInOrder(t, p))
                  /\ ag[t].node = "direct_inbound_promising" =>
                        <<ag'[t].status, ag'[t].strategy>> = Stage3Returns(t, InboundInOrder(t, p))]_vars

\* a borrow locked the later of two qualifying ASNs because its row came first
C21_Witness ==
    \E t \in Threads :
        /\ ag[t].node = "END"
        /\ ag[t].strategy = "SS_BORROW_WITH_REPLENISH"
        /\ Len(asns) = 2
        /\ asns[1].sku = ag[t].sku /\ asns[2].sku = ag[t].sku
        /\ asns[1].status # "CLOSED" /\ asns[2].status # "CLOSED"
        /\ asns[2].eta_datetime[1] < asns[1].eta_datetime[1]
        /\ asns[1].eta_datetime[1] <= Today + WindowDays(ag[t].sku)
        /\ asns[2].qty >= ag[t].qty
        /\ locks = {NewLock(ag[t].order_id, ag[t].sku, asns[1].asn_id, ag[t].qty)}

====
